---------------------------- MODULE Spec2Model ----------------------------
(***************************************************************************)
(* Model of two parts of pyuavcan:                                         *)
(*                                                                         *)
(*   - pyuavcan/transport/udp/_udp_port_mapping.py: the pure function      *)
(*     map_data_specifier_to_udp_port_number (specification SpecMap);      *)
(*   - pyuavcan/application/_node.py: the life cycle of a Node: its        *)
(*     constructor, set_local_node_id, the GetInfo request handler and     *)
(*     close (specification Spec).                                         *)
(*                                                                         *)
(* Node.__init__ and Node.close are synchronous; each of their statements  *)
(* is a call into another object that either returns or raises, so each    *)
(* statement is one step and pc is the position inside the method.  No     *)
(* other operation of the node runs while pc is inside a method.           *)
(***************************************************************************)
EXTENDS Integers, Sequences, FiniteSets, TLC

(***************************************************************************)
(* Program constants.                                                      *)
(***************************************************************************)
\* _udp_port_mapping.py:10
SUBJECT_ID_OFFSET == 16384
\* MessageDataSpecifier.SUBJECT_ID_MASK; the doctest at _udp_port_mapping.py:28-29
\* maps it to 49151 = 32767 + 16384.
SUBJECT_ID_MASK == 32767
\* The largest service-ID; the doctest at _udp_port_mapping.py:34-37.
SERVICE_ID_MASK == 511

(***************************************************************************)
(* Bounds of the model.                                                    *)
(***************************************************************************)
\* Subject-IDs probed around a subject-ID and at both ends of the range.
ProbeWidth == 3
\* Node-IDs 0..MaxNodeId are offered to set_local_node_id.
MaxNodeId == 1
\* Calls of set_local_node_id on one node.
MaxSetCalls == 3
\* GetInfo requests sent by one peer.
MaxRequestsPerPeer == 1
\* Calls of close on one node.
MaxCloseCalls == 1

VARIABLES
    \* ---- the port mapping
    ds,                  \* the data specifier given to the mapping function
    map_result,          \* what the call did: idle, returned a port, raised
    \* ---- the node
    pc,                  \* position of the node's synchronous code
    presentation,        \* self._presentation: "none" | "open" | "closed"
    heartbeat_publisher, \* self._heartbeat_publisher: "none" | "running" | "closed"
    srv_info,            \* self._srv_info: "none" | "created" | "serving" | "closed"
    info,                \* self._info: << >> before line 51, <<value>> after
    ctor_info,           \* history: the info argument of the constructor
    local_node_id,       \* the transport's local node-ID: << >> is None
    initial_node_id,     \* history: the transport's node-ID at construction
    set_log,             \* history: the calls of set_local_node_id, in order
    close_log,           \* the sub-resource closes invoked by the current close()
    close_failed,        \* the sub-resources whose close raised in this close()
    pending_exc,         \* the exception in flight inside close(): "none" or its name
    close_result,        \* what close() gave its caller
    close_calls,         \* number of close() calls started
    next_tid,            \* per peer: the requests it has sent
    requests,            \* GetInfo requests received and not yet handled
    handled,             \* history: the requests the handler was invoked on
    responses            \* the responses produced by the handler

mapVars == <<ds, map_result>>
lifeVars == <<pc, presentation, heartbeat_publisher, srv_info, info, ctor_info>>
idVars == <<local_node_id, initial_node_id, set_log>>
closeVars == <<close_log, close_failed, pending_exc, close_result, close_calls>>
rpcVars == <<next_tid, requests, handled, responses>>
nodeVars == <<lifeVars, idVars, closeVars, rpcVars>>
vars == <<mapVars, nodeVars>>

Range(s) == {s[i] : i \in 1..Len(s)}

(***************************************************************************)
(* Data specifiers and the UDP port mapping.                               *)
(***************************************************************************)
MessageDataSpecifier(subject_id) ==
    [kind |-> "message", subject_id |-> subject_id]

ServiceDataSpecifier(service_id, role) ==
    [kind |-> "service", service_id |-> service_id, role |-> role]

Roles == {"REQUEST", "RESPONSE"}

MessageDataSpecifiers == {MessageDataSpecifier(s) : s \in 0..SUBJECT_ID_MASK}

ServiceDataSpecifiers ==
    {ServiceDataSpecifier(q, r) : q \in 0..SERVICE_ID_MASK, r \in Roles}

\* A DataSpecifier that is neither a message nor a service specifier.
OtherDataSpecifier == [kind |-> "other"]

LegalDataSpecifiers == MessageDataSpecifiers \cup ServiceDataSpecifiers

Returned(port) == [status |-> "returned", port |-> port]
Raised(error) == [status |-> "raised", error |-> error]
Idle == [status |-> "idle"]

\* A slip in the offset: the subjects start one port lower.
map_subject_offset_slip(d) ==
    IF d.kind = "message"
    THEN Returned(d.subject_id + SUBJECT_ID_OFFSET - 1)
    ELSE IF d.kind = "service"
    THEN LET request == SUBJECT_ID_OFFSET - 2 - d.service_id * 2
         IN  IF d.role = "REQUEST" THEN Returned(request)
             ELSE Returned(request + 1)
    ELSE Raised("ValueError")

\* The services grow upward from the offset instead of downward.
map_services_grow_upward(d) ==
    IF d.kind = "message"
    THEN Returned(d.subject_id + SUBJECT_ID_OFFSET)
    ELSE IF d.kind = "service"
    THEN LET request == SUBJECT_ID_OFFSET + 2 + d.service_id * 2
         IN  IF d.role = "REQUEST" THEN Returned(request)
             ELSE Returned(request + 1)
    ELSE Raised("ValueError")

\* The service-ID is not doubled: a response lands on the next service's request.
map_service_id_not_doubled(d) ==
    IF d.kind = "message"
    THEN Returned(d.subject_id + SUBJECT_ID_OFFSET)
    ELSE IF d.kind = "service"
    THEN LET request == SUBJECT_ID_OFFSET - 2 - d.service_id
         IN  IF d.role = "REQUEST" THEN Returned(request)
             ELSE Returned(request + 1)
    ELSE Raised("ValueError")

map_data_specifier_to_udp_port_number(d) ==
    IF d.kind = "message"
    THEN Returned(d.subject_id + SUBJECT_ID_OFFSET)
    ELSE IF d.kind = "service"
    THEN LET request == SUBJECT_ID_OFFSET - 2 - d.service_id * 2
         IN  IF d.role = "REQUEST" THEN Returned(request)
             ELSE Returned(request + 1)
    ELSE Raised("ValueError")

\* A caller applies the mapping to its data specifier.
MapDataSpecifier ==
    /\ map_result = Idle
    /\ map_result' = map_data_specifier_to_udp_port_number(ds)
    /\ UNCHANGED <<ds, nodeVars>>


(***************************************************************************)
(* The node.                                                               *)
(***************************************************************************)
Peers == {"peer_a", "peer_b"}

NodeIds == 0..MaxNodeId

\* uavcan.node.GetInfo.Response values a node may be constructed with.
InfoValues ==
    {[name |-> "org.uavcan.a", software_version |-> 1],
     [name |-> "org.uavcan.b", software_version |-> 2]}

\* typing.Optional[int]: << >> is None, <<n>> is n.
None == << >>
Some(n) == <<n>>

NoException == "none"

\* Node.info
Node_info == info

\* Transport.local_node_id
Transport_local_node_id == local_node_id

\* Node.local_node_id
Node_local_node_id == Transport_local_node_id

\* Transport.set_local_node_id: the node-ID is assigned once; assigning an
\* already assigned node-ID is an error and changes nothing.
Transport_set_local_node_id(current, node_id) ==
    IF current = None
    THEN [raised |-> FALSE, local_node_id |-> Some(node_id)]
    ELSE [raised |-> TRUE, local_node_id |-> current]

\* The wrapper assigns the transport's attribute itself instead of calling
\* the transport's setter.
Node_set_local_node_id_assigns_directly(node_id) ==
    /\ pc = "alive"
    /\ Len(set_log) < MaxSetCalls
    /\ local_node_id' = Some(node_id)
    /\ set_log' = Append(set_log, [node_id |-> node_id, raised |-> FALSE])
    /\ UNCHANGED <<mapVars, lifeVars, initial_node_id, closeVars, rpcVars>>

\* Node.set_local_node_id
Node_set_local_node_id(node_id) ==
    /\ pc = "alive"
    /\ Len(set_log) < MaxSetCalls
    /\ LET r == Transport_set_local_node_id(local_node_id, node_id)
       IN  /\ local_node_id' = r.local_node_id
           /\ set_log' = Append(set_log, [node_id |-> node_id, raised |-> r.raised])
    /\ UNCHANGED <<mapVars, lifeVars, initial_node_id, closeVars, rpcVars>>

(***************************************************************************)
(* Node.__init__, one step per statement.  A call that raises ends the     *)
(* constructor: the exception propagates (there is no try) and the caller  *)
(* gets no Node, while what the earlier statements created stays as it is. *)
(***************************************************************************)
\* Lines 50-51: the presentation is created and the info is stored.
Node_init_presentation(info_arg, ok) ==
    /\ pc = "start"
    /\ ctor_info' = Some(info_arg)
    /\ IF ok
       THEN /\ presentation' = "open"
            /\ info' = Some(info_arg)
            /\ pc' = "init_heartbeat_publisher"
       ELSE /\ pc' = "init_failed"
            /\ UNCHANGED <<presentation, info>>
    /\ UNCHANGED <<mapVars, heartbeat_publisher, srv_info, idVars, closeVars, rpcVars>>

\* Line 52: the heartbeat publisher is created; it publishes from then on.
Node_init_heartbeat_publisher(ok) ==
    /\ pc = "init_heartbeat_publisher"
    /\ IF ok
       THEN /\ heartbeat_publisher' = "running"
            /\ pc' = "init_get_server"
       ELSE /\ pc' = "init_failed"
            /\ UNCHANGED heartbeat_publisher
    /\ UNCHANGED <<mapVars, presentation, srv_info, info, ctor_info, idVars,
                   closeVars, rpcVars>>

\* Line 53: the server of uavcan.node.GetInfo is obtained.
Node_init_get_server(ok) ==
    /\ pc = "init_get_server"
    /\ IF ok
       THEN /\ srv_info' = "created"
            /\ pc' = "init_serve_in_background"
       ELSE /\ pc' = "init_failed"
            /\ UNCHANGED srv_info
    /\ UNCHANGED <<mapVars, presentation, heartbeat_publisher, info, ctor_info, idVars,
                   closeVars, rpcVars>>

\* Line 54: the server starts serving with the node's handler.
Node_init_serve_in_background(ok) ==
    /\ pc = "init_serve_in_background"
    /\ IF ok
       THEN /\ srv_info' = "serving"
            /\ pc' = "alive"
       ELSE /\ pc' = "init_failed"
            /\ UNCHANGED srv_info
    /\ UNCHANGED <<mapVars, presentation, heartbeat_publisher, info, ctor_info, idVars,
                   closeVars, rpcVars>>

(***************************************************************************)
(* The GetInfo server.                                                     *)
(***************************************************************************)
\* The node is not inside one of its synchronous methods.
NodeIdle == pc \in {"alive", "closed"}

\* A peer's GetInfo request reaches the server.
ReceiveGetInfoRequest(peer) ==
    /\ NodeIdle
    /\ presentation = "open"
    /\ srv_info = "serving"
    /\ next_tid[peer] < MaxRequestsPerPeer
    /\ requests' = requests \cup {[peer |-> peer, transfer_id |-> next_tid[peer]]}
    /\ next_tid' = [next_tid EXCEPT ![peer] = @ + 1]
    /\ UNCHANGED <<mapVars, lifeVars, idVars, closeVars, handled, responses>>

\* The handler answers with a copy whose version field is reset.
Node_handle_get_info_request_resets_version(request) ==
    [raised |-> FALSE,
     value |-> [info[1] EXCEPT !.software_version = 0]]

\* Node._handle_get_info_request: what the handler returns.
Node_handle_get_info_request(request) ==
    [raised |-> FALSE, value |-> info[1]]

\* The server invokes the handler on a pending request, in any order, and
\* sends what it returns to the requesting peer with the same transfer-ID;
\* a handler that raises sends nothing.
Server_serve_request(request) ==
    /\ NodeIdle
    /\ srv_info = "serving"
    /\ request \in requests
    /\ LET r == Node_handle_get_info_request(request)
       IN  /\ requests' = requests \ {request}
           /\ handled' = handled \cup {request}
           /\ responses' =
                 IF r.raised THEN responses
                 ELSE responses \cup {[peer |-> request.peer,
                                       transfer_id |-> request.transfer_id,
                                       payload |-> r.value]}
    /\ UNCHANGED <<mapVars, lifeVars, idVars, closeVars, next_tid>>


(***************************************************************************)
(* Node.close, one step per statement:                                     *)
(*                                                                         *)
(*     try:                                                                *)
(*         self._heartbeat_publisher.close()                               *)
(*         self._srv_info.close()                                          *)
(*     finally:                                                            *)
(*         self._presentation.close()                                      *)
(*                                                                         *)
(* An exception raised in the try body leaves the body at once and stays   *)
(* in flight while the finally clause runs.  An exception raised by the    *)
(* finally clause replaces the one in flight; otherwise the one in flight  *)
(* is re-raised when the clause ends.                                      *)
(***************************************************************************)
CloseOrder == <<"heartbeat_publisher", "srv_info", "presentation">>

\* The exception a failing close of the sub-resource raises.
ExceptionOf(resource) == resource \o ".close() failed"

\* What a try statement gives its caller when its finally clause has run:
\* in_flight is the exception of the try body, raised the finally clause's.
finally_outcome(in_flight, raised) ==
    IF raised # NoException THEN raised
    ELSE IF in_flight # NoException THEN in_flight
    ELSE "returned"

\* The presentation is closed first, before the node's own endpoints.
Node_close_presentation_first ==
    /\ pc \in {"alive", "closed"}
    /\ close_calls < MaxCloseCalls
    /\ close_calls' = close_calls + 1
    /\ close_log' = << >>
    /\ close_failed' = {}
    /\ pending_exc' = NoException
    /\ close_result' = "running"
    /\ pc' = "close_presentation"
    /\ UNCHANGED <<mapVars, presentation, heartbeat_publisher, srv_info, info, ctor_info,
                   idVars, rpcVars>>

\* Line 137: close() is called and enters the try statement.
Node_close ==
    /\ pc \in {"alive", "closed"}
    /\ close_calls < MaxCloseCalls
    /\ close_calls' = close_calls + 1
    /\ close_log' = << >>
    /\ close_failed' = {}
    /\ pending_exc' = NoException
    /\ close_result' = "running"
    /\ pc' = "close_heartbeat_publisher"
    /\ UNCHANGED <<mapVars, presentation, heartbeat_publisher, srv_info, info, ctor_info,
                   idVars, rpcVars>>

\* Without the try/finally a failing close ends close() at once.
Node_close_heartbeat_publisher_no_finally(ok) ==
    /\ pc = "close_heartbeat_publisher"
    /\ close_log' = Append(close_log, "heartbeat_publisher")
    /\ IF ok
       THEN /\ heartbeat_publisher' = "closed"
            /\ pc' = "close_srv_info"
            /\ UNCHANGED <<close_failed, pending_exc, close_result>>
       ELSE /\ close_failed' = close_failed \cup {"heartbeat_publisher"}
            /\ pending_exc' = NoException
            /\ close_result' = ExceptionOf("heartbeat_publisher")
            /\ pc' = "closed"
            /\ UNCHANGED heartbeat_publisher
    /\ UNCHANGED <<mapVars, presentation, srv_info, info, ctor_info, idVars,
                   close_calls, rpcVars>>

\* Line 142: self._heartbeat_publisher.close()
Node_close_heartbeat_publisher(ok) ==
    /\ pc = "close_heartbeat_publisher"
    /\ close_log' = Append(close_log, "heartbeat_publisher")
    /\ IF ok
       THEN /\ heartbeat_publisher' = "closed"
            /\ pc' = "close_srv_info"
            /\ UNCHANGED <<close_failed, pending_exc>>
       ELSE /\ close_failed' = close_failed \cup {"heartbeat_publisher"}
            /\ pending_exc' = ExceptionOf("heartbeat_publisher")
            /\ pc' = "close_presentation"
            /\ UNCHANGED heartbeat_publisher
    /\ UNCHANGED <<mapVars, presentation, srv_info, info, ctor_info, idVars,
                   close_result, close_calls, rpcVars>>

\* Line 143: self._srv_info.close()
Node_close_srv_info(ok) ==
    /\ pc = "close_srv_info"
    /\ close_log' = Append(close_log, "srv_info")
    /\ IF ok
       THEN /\ srv_info' = "closed"
            /\ UNCHANGED <<close_failed, pending_exc>>
       ELSE /\ close_failed' = close_failed \cup {"srv_info"}
            /\ pending_exc' = ExceptionOf("srv_info")
            /\ UNCHANGED srv_info
    /\ pc' = "close_presentation"
    /\ UNCHANGED <<mapVars, presentation, heartbeat_publisher, info, ctor_info, idVars,
                   close_result, close_calls, rpcVars>>

\* Lines 144-145: the finally clause, self._presentation.close(); close()
\* then returns or raises.
Node_close_presentation(ok) ==
    /\ pc = "close_presentation"
    /\ close_log' = Append(close_log, "presentation")
    /\ IF ok
       THEN /\ presentation' = "closed"
            /\ close_result' = finally_outcome(pending_exc, NoException)
            /\ UNCHANGED close_failed
       ELSE /\ close_failed' = close_failed \cup {"presentation"}
            /\ close_result' = finally_outcome(pending_exc, ExceptionOf("presentation"))
            /\ UNCHANGED presentation
    /\ pending_exc' = NoException
    /\ pc' = "closed"
    /\ UNCHANGED <<mapVars, heartbeat_publisher, srv_info, info, ctor_info, idVars,
                   close_calls, rpcVars>>

(***************************************************************************)
(* Specifications.                                                         *)
(***************************************************************************)
NodeInit ==
    /\ pc = "start"
    /\ presentation = "none"
    /\ heartbeat_publisher = "none"
    /\ srv_info = "none"
    /\ info = None
    /\ ctor_info = None
    /\ close_log = << >>
    /\ close_failed = {}
    /\ pending_exc = NoException
    /\ close_result = "not_called"
    /\ close_calls = 0
    /\ set_log = << >>
    /\ next_tid = [p \in Peers |-> 0]
    /\ requests = {}
    /\ handled = {}
    /\ responses = {}

\* A transport is anonymous or was given its node-ID when it was made.
Init ==
    /\ ds = OtherDataSpecifier
    /\ map_result = Idle
    /\ NodeInit
    /\ initial_node_id \in {None} \cup {Some(n) : n \in NodeIds}
    /\ local_node_id = initial_node_id

Next ==
    \/ \E i \in InfoValues, ok \in BOOLEAN : Node_init_presentation(i, ok)
    \/ \E ok \in BOOLEAN : Node_init_heartbeat_publisher(ok)
    \/ \E ok \in BOOLEAN : Node_init_get_server(ok)
    \/ \E ok \in BOOLEAN : Node_init_serve_in_background(ok)
    \/ \E n \in NodeIds : Node_set_local_node_id(n)
    \/ \E p \in Peers : ReceiveGetInfoRequest(p)
    \/ \E r \in requests : Server_serve_request(r)
    \/ Node_close
    \/ \E ok \in BOOLEAN : Node_close_heartbeat_publisher(ok)
    \/ \E ok \in BOOLEAN : Node_close_srv_info(ok)
    \/ \E ok \in BOOLEAN : Node_close_presentation(ok)

Spec == Init /\ [][Next]_vars

\* The mapping function applied to every legal data specifier and to one
\* that is neither a message nor a service specifier.
InitMap ==
    /\ ds \in LegalDataSpecifiers \cup {OtherDataSpecifier}
    /\ map_result = Idle
    /\ NodeInit
    /\ initial_node_id = None
    /\ local_node_id = None

NextMap == MapDataSpecifier

SpecMap == InitMap /\ [][NextMap]_vars


(***************************************************************************)
(* Properties of the port mapping (under SpecMap).                         *)
(***************************************************************************)
Port == map_result.port

MapReturned == map_result.status = "returned"

\* The subject-IDs a data specifier is compared with: both ends of the
\* range and, for a subject, its neighbours.
ProbeSubjectIds(d) ==
    (0..ProbeWidth)
    \cup ((SUBJECT_ID_MASK - ProbeWidth)..SUBJECT_ID_MASK)
    \cup (IF d.kind = "message"
          THEN {s \in (d.subject_id - ProbeWidth)..(d.subject_id + ProbeWidth) :
                    s >= 0 /\ s <= SUBJECT_ID_MASK}
          ELSE {})

\* The data specifiers a data specifier is compared with: every service
\* specifier and the subjects above.
Probes(d) ==
    ServiceDataSpecifiers \cup {MessageDataSpecifier(s) : s \in ProbeSubjectIds(d)}

\* C1: the mapping is injective over the legal data specifiers: it returns a
\* port for each of them, the port of a legal data specifier differs from
\* the port of every other one (here: of every service specifier, of the
\* subjects within ProbeWidth of it and of those at the ends of the subject
\* range), every subject port is >= 16384 and every service port <= 16383.
C1_MappingInjective ==
    (ds \in LegalDataSpecifiers /\ map_result # Idle) =>
        /\ MapReturned
        /\ \A e \in Probes(ds) :
              e # ds => map_data_specifier_to_udp_port_number(e) # map_result
        /\ ds.kind = "message" => Port >= 16384
        /\ ds.kind = "service" => Port <= 16383

\* The response of service 0 got port 16383, next to subject 0's 16384.
C1_Witness ==
    /\ ds = ServiceDataSpecifier(0, "RESPONSE")
    /\ map_result = Returned(16383)

\* C6: a subject maps to its subject-ID plus 16384, strictly increasing in
\* the subject-ID; subject 0 maps to 16384, subject 16383 to 32767 and the
\* largest subject-ID, SUBJECT_ID_MASK, to 49151.
C6_SubjectPorts ==
    (ds.kind = "message" /\ map_result # Idle) =>
        /\ MapReturned
        /\ Port = ds.subject_id + 16384
        /\ \A s \in ProbeSubjectIds(ds) :
              LET other == map_data_specifier_to_udp_port_number(MessageDataSpecifier(s))
              IN  /\ s > ds.subject_id => other.port > Port
                  /\ s < ds.subject_id => other.port < Port
        /\ ds.subject_id = 0 => Port = 16384
        /\ ds.subject_id = 16383 => Port = 32767
        /\ ds.subject_id = SUBJECT_ID_MASK => Port = 49151

\* The largest subject-ID was mapped.
C6_Witness ==
    /\ ds = MessageDataSpecifier(SUBJECT_ID_MASK)
    /\ map_result = Returned(49151)

\* C7: the request of service q maps to the even port 16384 - 2 - 2q, its
\* response to the next, odd port; both are strictly decreasing in q;
\* service 0 maps to 16382 and 16383, service 511 to 15360 and 15361.
C7_ServicePorts ==
    (ds.kind = "service" /\ map_result # Idle) =>
        LET q == ds.service_id
            request == map_data_specifier_to_udp_port_number(
                           ServiceDataSpecifier(q, "REQUEST"))
        IN  /\ MapReturned
            /\ ds.role = "REQUEST" =>
                  /\ Port = 16384 - 2 - 2 * q
                  /\ Port % 2 = 0
                  /\ q = 0 => Port = 16382
                  /\ q = 511 => Port = 15360
            /\ ds.role = "RESPONSE" =>
                  /\ Port = request.port + 1
                  /\ Port % 2 = 1
                  /\ q = 0 => Port = 16383
                  /\ q = 511 => Port = 15361
            /\ \A q2 \in 0..SERVICE_ID_MASK :
                  LET other == map_data_specifier_to_udp_port_number(
                                   ServiceDataSpecifier(q2, ds.role))
                  IN  /\ q2 > q => other.port < Port
                      /\ q2 < q => other.port > Port

\* The response of the largest service-ID was mapped.
C7_Witness ==
    /\ ds = ServiceDataSpecifier(511, "RESPONSE")
    /\ map_result = Returned(15361)

(***************************************************************************)
(* Properties of the node (under Spec).                                    *)
(***************************************************************************)
\* A call of close() has returned or raised.
CloseCompleted == close_calls > 0 /\ pc = "closed"

\* How often the current close() invoked the close of a sub-resource.
CloseInvocations(resource) ==
    Cardinality({i \in 1..Len(close_log) : close_log[i] = resource})

\* C2: every close() invokes the presentation's close exactly once before
\* it returns or raises, whatever the closes of the heartbeat publisher and
\* of the info server did.
C2_PresentationClosedOnce ==
    /\ CloseInvocations("presentation") <= 1
    /\ CloseCompleted => CloseInvocations("presentation") = 1

\* close() ended after the heartbeat publisher's close had raised.
C2_Witness ==
    /\ CloseCompleted
    /\ "heartbeat_publisher" \in close_failed
    /\ CloseInvocations("presentation") = 1

\* C3: every close() attempts the close of all three sub-resources, also
\* the info server's when the heartbeat publisher's close has failed.
C3_AllClosesAttempted ==
    CloseCompleted =>
        Range(close_log) = {"heartbeat_publisher", "srv_info", "presentation"}

\* The first sub-resource, in close order, whose close failed.
FirstFailure ==
    IF close_failed = {} THEN "returned"
    ELSE LET first == CHOOSE i \in 1..Len(CloseOrder) :
                         /\ CloseOrder[i] \in close_failed
                         /\ \A j \in 1..(i - 1) : CloseOrder[j] \notin close_failed
         IN  ExceptionOf(CloseOrder[first])

\* C4: close() reports the first failure in close order to its caller, and
\* no error when no close failed.
C4_FirstFailureReported ==
    CloseCompleted => close_result = FirstFailure

\* C5: inside close() the heartbeat publisher's close is invoked first, the
\* info server's close only right after it, and the presentation's close
\* last: after the info server's close, or after the heartbeat publisher's
\* close when that raised and the info server's close was skipped.
C5_ShutdownOrder ==
    /\ Len(close_log) >= 1 => close_log[1] = "heartbeat_publisher"
    /\ \A i \in 1..Len(close_log) :
          /\ close_log[i] = "heartbeat_publisher" => i = 1
          /\ close_log[i] = "srv_info" => i = 2
          /\ close_log[i] = "presentation" =>
                /\ i = Len(close_log)
                /\ \/ i = 3 /\ close_log[2] = "srv_info"
                   \/ i = 2 /\ "heartbeat_publisher" \in close_failed

\* A close() that invoked all three closes.
C5_Witness ==
    /\ CloseCompleted
    /\ close_log = CloseOrder

\* C8: a constructor that returned left the heartbeat publisher running and
\* the info server serving, and a constructor that raised left no running
\* heartbeat publisher behind (the presentation it was created on is then
\* open as well, and no Node exists that would close either).
C8_ConstructionAtomic ==
    /\ pc = "alive" => heartbeat_publisher = "running" /\ srv_info = "serving"
    /\ pc = "init_failed" => heartbeat_publisher # "running"

\* C9: Node.local_node_id is the transport's node-ID; on a node whose
\* transport started anonymous the first set_local_node_id succeeds, every
\* later one raises, and the node-ID stays the first call's.
C9_NodeIdSetOnce ==
    initial_node_id = None =>
        /\ set_log = << >> => Node_local_node_id = None
        /\ set_log # << >> =>
              /\ ~set_log[1].raised
              /\ \A i \in 2..Len(set_log) : set_log[i].raised
              /\ Node_local_node_id = Some(set_log[1].node_id)

\* Three calls, the later ones with another node-ID than the first.
C9_Witness ==
    /\ initial_node_id = None
    /\ Len(set_log) = 3
    /\ set_log[2].node_id # set_log[1].node_id
    /\ set_log[3].node_id # set_log[1].node_id

\* C10: Node.info is the info structure given to the constructor for as
\* long as the node exists, and every request the handler was invoked on
\* got a response carrying exactly that structure.
C10_InfoUnchanged ==
    /\ info # None => Node_info = ctor_info
    /\ \A r \in responses : Some(r.payload) = ctor_info
    /\ \A h \in handled :
          \E r \in responses : r.peer = h.peer /\ r.transfer_id = h.transfer_id

\* The handler answered a request of each peer.
C10_Witness ==
    /\ \A p \in Peers : \E r \in responses : r.peer = p
    /\ \A r \in responses : Some(r.payload) = Node_info

=============================================================================
